---- MODULE Spec2Model ----
(***************************************************************************)
(* Fleet status synchronisation and action dispatch of fleet-control's     *)
(* frontend: the control view (components/FleetControl.tsx) and the status *)
(* view (components/FleetStatus.tsx).                                      *)
(*                                                                         *)
(* JavaScript runs handlers to completion on one thread, so every action   *)
(* below is one handler run from its start to its first await, or from the *)
(* settling of an awaited promise to the next await or the end.  A handler *)
(* invocation that is suspended at an await is a record in fcCalls or      *)
(* fsCalls; a GET /api/fleet/status that has not settled is a record in    *)
(* fcFetches or fsFetches.  What the server answers is an input drawn at   *)
(* the step that handles the answer.                                       *)
(*                                                                         *)
(* A nullable value of the source is a sequence of length at most one:     *)
(* NULL is null and Some(v) is the value v.                                *)
(***************************************************************************)
EXTENDS Integers, Sequences, FiniteSets, TLC

VARIABLES
    \* ---- shared: localStorage ----
    cv_api_key,        \* localStorage 'cv_api_key' ("" when unset)
    \* ---- control view (FleetControl) ----
    fcData,            \* data: Some(snapshot) or NULL
    fcLoading,         \* loading
    actionLoading,     \* Some(endpoint) or NULL
    message,           \* Some([type, text]) or NULL
    modal,             \* Some(ModalData) or NULL
    fcMainMessage,     \* mainMessage (composed text)
    fcSendingMessage,  \* sendingMessage
    fcInterval,        \* the 5 s interval of the polling effect is active
    fcFetches,         \* fetchStatus calls awaiting GET /api/fleet/status
    fcCalls,           \* doAction / doContextAction / sendMessageToMain calls awaiting
    \* ---- status view (FleetStatus) ----
    fsMounted,         \* the view is mounted
    fsData,            \* data: Some(snapshot) or NULL
    fsLoading,         \* loading
    error,             \* Some(text) or NULL
    connectionType,    \* "sse" or "polling"
    inboxModal,        \* Some([agentId, files]) or NULL
    inboxLoading,      \* Some(agentId) or NULL
    fleetActionLoading,\* Some("inbox") or NULL
    fleetMessage,      \* Some([type, text]) or NULL
    fsMainMessage,     \* mainMessage (composed text)
    fsSendingMessage,  \* sendingMessage
    eventSourceRef,    \* eventSourceRef.current: index into sources, 0 for null
    pollingIntervalRef,\* pollingIntervalRef.current: a timer id, 0 for null
    sources,           \* every EventSource constructed so far: [state, live]
    fsIntervals,       \* active setInterval timers: [id, kind, live]
    fsTimeouts,        \* pending setTimeout(() => setFleetMessage(null)): [ms, live]
    fsFetches,         \* fetchStatus calls awaiting GET /api/fleet/status: [live]
    fsCalls,           \* sendMessageToMain / fleetInboxCheck / checkInbox calls awaiting
    \* ---- status view: terminal modal ----
    terminalModal,     \* Some([agentId, content, online]) or NULL
    terminalLoading,   \* terminalLoading
    terminalPollRef,   \* terminalPollRef.current: a timer id, 0 for null
    fsTermIntervals,   \* active setInterval(fetchTerminal, 2000) timers: [id, agentId, live]
    fsTermFetches,     \* fetchTerminal calls awaiting GET: [agentId, awaited, live]
    \* ---- app cards (AppCards) ----
    probes,            \* checkAppHealth calls, one slot each: [pc, app, timer, ...]
    \* ---- history (observations, no program state) ----
    activations,       \* mounts of the status view so far
    delivered,         \* stream messages delivered in this activation
    errored            \* onerror runs in this activation

fcVars == <<fcData, fcLoading, actionLoading, message, modal, fcMainMessage,
            fcSendingMessage, fcInterval, fcFetches, fcCalls>>

fsVars == <<fsMounted, fsData, fsLoading, error, connectionType, inboxModal,
            inboxLoading, fleetActionLoading, fleetMessage, fsMainMessage,
            fsSendingMessage, eventSourceRef, pollingIntervalRef, sources,
            fsIntervals, fsTimeouts, fsFetches, fsCalls,
            activations, delivered, errored>>

termVars == <<terminalModal, terminalLoading, terminalPollRef, fsTermIntervals,
              fsTermFetches>>

appVars == <<probes>>

vars == <<cv_api_key, fcVars, fsVars, termVars, appVars>>

----------------------------------------------------------------------------
(* Bounds *)

\* GET /api/fleet/status requests a view's interval may have outstanding at once
MaxInFlight == 2
\* activations (mounts) of the status view
MaxActivations == 2
\* stream messages delivered to one activation
MaxDelivered == 2
\* banner timeouts pending when another banner-producing action is started
MaxTimeouts == 2
\* terminal poll timers started, or about to be started by an openTerminal
\* call that is still awaiting
MaxTermTimers == 2
\* fetchTerminal calls started by a timer or by the refresh button that are
\* still awaiting
MaxTermInFlight == 1

\* checkAppHealth calls that have not been collected, or whose abort timer
\* is still pending
MaxProbes == 2

----------------------------------------------------------------------------
(* Values *)

NULL == <<>>
Some(v) == <<v>>
Get(o) == o[1]

\* s without its i-th element
RemoveAt(s, i) == [j \in 1..(Len(s) - 1) |-> IF j < i THEN s[j] ELSE s[j + 1]]

\* Agent.type; "undefined" is the absent optional field
AgentTypes == {"cli", "desktop", "remote", "undefined"}

\* Fleet snapshots the server may deliver.  SnapB's counts disagree with its
\* agents array: the client trusts the producer.
SnapA == [agents |-> << [id |-> "cv2-main", online |-> TRUE,  type |-> "cli"],
                        [id |-> "a1",       online |-> FALSE, type |-> "undefined"] >>,
          online_count |-> 1, total_count |-> 2]
SnapB == [agents |-> << [id |-> "a1", online |-> TRUE,  type |-> "remote"],
                        [id |-> "d1", online |-> FALSE, type |-> "desktop"] >>,
          online_count |-> 1, total_count |-> 3]
Snapshots == {SnapA, SnapB}

\* What a GET /api/fleet/status settles with.
\*   net = FALSE: fetch rejected;  ok: res.ok;
\*   snap: what res.json() resolves to, NULL when it rejects
StatusResp(net, ok, snap) == [net |-> net, ok |-> ok, snap |-> snap]
StatusResponses ==
    { StatusResp(TRUE, TRUE, Some(s)) : s \in Snapshots }
    \cup { StatusResp(TRUE, FALSE, NULL), StatusResp(TRUE, TRUE, NULL),
           StatusResp(FALSE, FALSE, NULL) }
\* the try block of fetchStatus ran to its end
StatusOk(r) == r.net /\ r.ok /\ r.snap # NULL

\* Credential values the operator may store
ApiKeys == {"", "k1"}

\* Texts the operator may compose; " " is blank but not empty
Texts == {"", " ", "hi"}

\* Mutant: whitespace counts as text
TrimNothing(t) == t

Trim(t) == IF t = " " THEN "" ELSE t

ModalT == [title |-> "T", instruction |-> "I", command |-> "C"]
ModalU == [title |-> "U", instruction |-> "J", command |-> "D"]

\* What a POST settles with.
\*   net  = FALSE: fetch rejected (transport failure)
\*   json = FALSE: res.json() rejected (body is not JSON)
\*   ok        : res.ok
\*   status, error: json.status, json.error ("" when absent)
\*   modal     : json.modal (NULL when absent)
Resp(net, js, ok, status, err, md) ==
    [net |-> net, json |-> js, ok |-> ok, status |-> status, error |-> err, modal |-> md]
Responses ==
    { Resp(TRUE, TRUE, TRUE, "done", "", NULL),
      Resp(TRUE, TRUE, TRUE, "modal", "", Some(ModalT)),
      Resp(TRUE, TRUE, TRUE, "modal", "", Some(ModalU)),
      Resp(TRUE, TRUE, TRUE, "modal", "", NULL),
      Resp(TRUE, TRUE, TRUE, "done", "", Some(ModalT)),
      Resp(TRUE, TRUE, FALSE, "", "agent busy", NULL),
      Resp(TRUE, TRUE, FALSE, "", "", NULL),
      Resp(TRUE, FALSE, FALSE, "", "", NULL),
      Resp(TRUE, FALSE, TRUE, "", "", NULL),
      Resp(FALSE, FALSE, FALSE, "", "", NULL) }

\* err.message of what the awaited fetch or res.json() throws
NetErrText == "Failed to fetch"
ParseErrText == "Unexpected token"

----------------------------------------------------------------------------
(* Control view: FleetControl.tsx *)

AgentsOf(d) == IF d = NULL THEN {} ELSE {Get(d).agents[i] : i \in DOMAIN Get(d).agents}

\* if (loading && !data) return <div>Loading...</div>
FcRendered == ~(fcLoading /\ fcData = NULL)

\* The 'cv2-main' card carries the message form and the fleet-wide commands
FcMainCard == FcRendered /\ \E a \in AgentsOf(fcData) : a.id = "cv2-main"

Affordance(ep, label) == [endpoint |-> ep, label |-> label]

\* Mutant: every card offers launch, kill and restart
DoActionButtonsAllVerbs ==
    IF ~FcRendered THEN {}
    ELSE { Affordance(<<"/fleet/launch-all">>, <<"Launch All">>),
           Affordance(<<"/fleet/kill-all">>, <<"Kill All">>) }
         \cup { Affordance(<<"/fleet/launch", a.id>>, <<"Launch", a.id>>) :
                    a \in AgentsOf(fcData) }
         \cup { Affordance(<<"/fleet/kill", a.id>>, <<"Kill", a.id>>) :
                    a \in AgentsOf(fcData) }
         \cup { Affordance(<<"/fleet/restart", a.id>>, <<"Restart", a.id>>) :
                    a \in AgentsOf(fcData) }

\* launchAgent, killAgent, restartAgent, launchAll, killAll: the rendered
\* buttons that call doAction, whatever their disabled attribute
DoActionButtons ==
    IF ~FcRendered THEN {}
    ELSE { Affordance(<<"/fleet/launch-all">>, <<"Launch All">>),
           Affordance(<<"/fleet/kill-all">>, <<"Kill All">>) }
         \cup { Affordance(<<"/fleet/launch", a.id>>, <<"Launch", a.id>>) :
                    a \in {b \in AgentsOf(fcData) : ~b.online} }
         \cup { Affordance(<<"/fleet/kill", a.id>>, <<"Kill", a.id>>) :
                    a \in {b \in AgentsOf(fcData) : b.online} }
         \cup { Affordance(<<"/fleet/restart", a.id>>, <<"Restart", a.id>>) :
                    a \in {b \in AgentsOf(fcData) : b.online} }

\* Mutant: the doAction buttons are never disabled
DoActionEnabledAlways(b) == TRUE

\* disabled={actionLoading !== null}
DoActionEnabled(b) == actionLoading = NULL

\* saveContext, pullContext, nudgeAgent, checkInbox per agent, and
\* fleetSaveAll, fleetPullAll, fleetInboxCheck on the 'cv2-main' card
ContextVerbs ==
    { <<"/fleet/context/save", "Save">>, <<"/fleet/context/pull", "Pull">>,
      <<"/fleet/context/nudge", "Nudge">>, <<"/fleet/context/inbox", "Inbox">> }
AgentContextButtons ==
    IF ~FcRendered THEN {}
    ELSE { [agent |-> a, aff |-> Affordance(<<v[1], a.id>>, <<v[2], a.id>>)] :
               a \in AgentsOf(fcData), v \in ContextVerbs }
FleetContextButtons ==
    IF ~FcMainCard THEN {}
    ELSE { Affordance(<<"/fleet/save-all">>, <<"Fleet Save">>),
           Affordance(<<"/fleet/pull-all">>, <<"Fleet Pull">>),
           Affordance(<<"/fleet/inbox-check-all">>, <<"Fleet Inbox Check">>) }

\* disabled={actionLoading !== null || (!agent.online && agent.type !== 'desktop')}
AgentContextEnabled(b) ==
    ~(actionLoading # NULL \/ (~b.agent.online /\ b.agent.type # "desktop"))
\* Mutant: the fleet-wide context commands are never disabled
FleetContextEnabledAlways(b) == TRUE

\* disabled={actionLoading !== null}
FleetContextEnabled(b) == actionLoading = NULL

\* Mutant: the header carries no stored value
GetApiKeyBlank == ""

\* getApiKey: localStorage.getItem('cv_api_key') || '', evaluated while the
\* request's headers are built
GetApiKey == cv_api_key

Call(fn, ep, label, key, body) ==
    [fn |-> fn, endpoint |-> ep, label |-> label, key |-> key, body |-> body,
     pc |-> "post", ok |-> FALSE]

\* The POST was rejected, its body did not parse, or !res.ok: control
\* passes to the handler's catch
Threw(resp) == ~resp.net \/ ~resp.json \/ ~resp.ok

\* Mutant: the server's message is dropped
ErrTextFallbackOnly(resp, fallback) ==
    IF ~resp.net THEN NetErrText
    ELSE IF ~resp.json THEN ParseErrText
    ELSE fallback

\* err.message in the catch: `throw new Error(json.error || fallback)` for a
\* parsed non-success body, else the message of what fetch or res.json() threw
ErrText(resp, fallback) ==
    IF ~resp.net THEN NetErrText
    ELSE IF ~resp.json THEN ParseErrText
    ELSE IF resp.error # "" THEN resp.error
    ELSE fallback

SuccessMsg(text) == Some([type |-> "success", text |-> text])
ErrorMsg(text) == Some([type |-> "error", text |-> <<text>>])

FcInit ==
    /\ fcData = NULL
    /\ fcLoading = TRUE
    /\ actionLoading = NULL
    /\ message = NULL
    /\ modal = NULL
    /\ fcMainMessage = ""
    /\ fcSendingMessage = FALSE
    \* the mount effect has run: fetchStatus(); setInterval(fetchStatus, 5000)
    /\ fcInterval = TRUE
    /\ fcFetches = <<[origin |-> "effect"]>>
    /\ fcCalls = <<>>

\* setInterval(fetchStatus, 5000) fires: fetchStatus up to its await
FcPollTick ==
    /\ fcInterval
    /\ Len(SelectSeq(fcFetches, LAMBDA f : f.origin = "effect")) < MaxInFlight
    /\ fcFetches' = Append(fcFetches, [origin |-> "effect"])
    /\ UNCHANGED <<fsVars, termVars, appVars, cv_api_key, fcData, fcLoading, actionLoading, message, modal,
                   fcMainMessage, fcSendingMessage, fcInterval, fcCalls>>

\* fetchStatus from its await to its end: setData on success, nothing on
\* failure ("Silent fail on refresh"), setLoading(false) always
FcFetchStatusSettle(i, r) ==
    /\ fcFetches[i].origin = "effect"
    /\ fcFetches' = RemoveAt(fcFetches, i)
    /\ fcData' = IF StatusOk(r) THEN r.snap ELSE fcData
    /\ fcLoading' = FALSE
    /\ UNCHANGED <<fsVars, termVars, appVars, cv_api_key, actionLoading, message, modal, fcMainMessage,
                   fcSendingMessage, fcInterval, fcCalls>>

\* doAction up to its await of the POST
DoAction(b) ==
    /\ actionLoading' = Some(b.endpoint)
    /\ message' = NULL
    /\ fcCalls' = Append(fcCalls, Call("doAction", b.endpoint, b.label, GetApiKey, ""))
    /\ UNCHANGED <<fsVars, termVars, appVars, cv_api_key, fcData, fcLoading, modal, fcMainMessage,
                   fcSendingMessage, fcInterval, fcFetches>>

ClickDoAction ==
    \E b \in DoActionButtons : DoActionEnabled(b) /\ DoAction(b)

\* Mutant: doAction does not refresh
ForcedRefreshNever(fetches, resp) == fetches

\* Mutant: doAction refreshes in its finally, after a failure too
ForcedRefreshAlways(fetches, resp) == Append(fetches, [origin |-> "doAction"])

\* `await fetchStatus()` of doAction, reached only past the res.ok check:
\* fetchStatus up to its await
ForcedRefresh(fetches, resp) ==
    IF Threw(resp) THEN fetches ELSE Append(fetches, [origin |-> "doAction"])

\* Mutant: the marker is cleared at the end of the try block, not in a finally
FinallyActionLoadingOnSuccess(resp) == IF Threw(resp) THEN actionLoading ELSE NULL

\* Mutant: the marker is held while a modal awaits its dismissal
FinallyActionLoadingHeldByModal(resp) ==
    IF ~Threw(resp) /\ resp.status = "modal" /\ resp.modal # NULL
    THEN actionLoading ELSE NULL

\* finally { setActionLoading(null) } of doAction and doContextAction
FinallyActionLoading(resp) == NULL

\* Mutant: the marker is cleared with the success banner, before the refresh
ActionLoadingClearedBeforeRefresh == NULL

\* doAction touches no marker between the success banner and
\* `await fetchStatus()`: the finally has not run yet
ActionLoadingAwaitingRefresh == actionLoading

\* doAction from the POST's settling: to the catch and finally, or to the
\* await of fetchStatus()
DoActionSettle(i, resp) ==
    /\ fcCalls[i].fn = "doAction" /\ fcCalls[i].pc = "post"
    /\ fcFetches' = ForcedRefresh(fcFetches, resp)
    /\ IF Threw(resp)
       THEN /\ message' = ErrorMsg(ErrText(resp, "Action failed"))
            /\ actionLoading' = FinallyActionLoading(resp)
            /\ fcCalls' = RemoveAt(fcCalls, i)
       ELSE /\ message' = SuccessMsg(fcCalls[i].label \o <<resp.status>>)
            /\ fcCalls' = [fcCalls EXCEPT ![i].pc = "refresh", ![i].ok = TRUE]
            /\ actionLoading' = ActionLoadingAwaitingRefresh
    /\ UNCHANGED <<fsVars, termVars, appVars, cv_api_key, fcData, fcLoading, modal, fcMainMessage,
                   fcSendingMessage, fcInterval>>

\* Mutant: a failed refresh propagates out of doAction before its finally
DoActionRefreshSettleClearingOnOk(i, j, r) ==
    /\ fcFetches[i].origin = "doAction"
    /\ fcCalls[j].fn = "doAction" /\ fcCalls[j].pc = "refresh"
    /\ fcFetches' = RemoveAt(fcFetches, i)
    /\ fcData' = IF StatusOk(r) THEN r.snap ELSE fcData
    /\ fcLoading' = FALSE
    /\ actionLoading' = IF StatusOk(r) THEN NULL ELSE actionLoading
    /\ fcCalls' = RemoveAt(fcCalls, j)
    /\ UNCHANGED <<fsVars, termVars, appVars, cv_api_key, message, modal, fcMainMessage, fcSendingMessage,
                   fcInterval>>

\* the fetchStatus awaited by doAction settles (it never throws), then
\* doAction's finally
DoActionRefreshSettle(i, j, r) ==
    /\ fcFetches[i].origin = "doAction"
    /\ fcCalls[j].fn = "doAction" /\ fcCalls[j].pc = "refresh"
    /\ fcFetches' = RemoveAt(fcFetches, i)
    /\ fcData' = IF StatusOk(r) THEN r.snap ELSE fcData
    /\ fcLoading' = FALSE
    /\ actionLoading' = NULL
    /\ fcCalls' = RemoveAt(fcCalls, j)
    /\ UNCHANGED <<fsVars, termVars, appVars, cv_api_key, message, modal, fcMainMessage, fcSendingMessage,
                   fcInterval>>

\* Mutant: starting a context action also dismisses the modal
DoContextActionClosingModal(b) ==
    /\ actionLoading' = Some(b.endpoint)
    /\ message' = NULL
    /\ modal' = NULL
    /\ fcCalls' = Append(fcCalls,
                         Call("doContextAction", b.endpoint, b.label, GetApiKey, ""))
    /\ UNCHANGED <<fsVars, termVars, appVars, cv_api_key, fcData, fcLoading, fcMainMessage,
                   fcSendingMessage, fcInterval, fcFetches>>

\* doContextAction up to its await of the POST
DoContextAction(b) ==
    /\ actionLoading' = Some(b.endpoint)
    /\ message' = NULL
    /\ fcCalls' = Append(fcCalls,
                         Call("doContextAction", b.endpoint, b.label, GetApiKey, ""))
    /\ UNCHANGED <<fsVars, termVars, appVars, cv_api_key, fcData, fcLoading, modal, fcMainMessage,
                   fcSendingMessage, fcInterval, fcFetches>>

ClickAgentContext ==
    \E b \in AgentContextButtons : AgentContextEnabled(b) /\ DoContextAction(b.aff)

ClickFleetContext ==
    \E b \in FleetContextButtons : FleetContextEnabled(b) /\ DoContextAction(b)

\* json.status === 'modal' && json.modal
IsModal(resp) == resp.status = "modal" /\ resp.modal # NULL

\* doContextAction from the POST's settling to its end
DoContextActionSettle(i, resp) ==
    /\ fcCalls[i].fn = "doContextAction" /\ fcCalls[i].pc = "post"
    /\ IF Threw(resp)
       THEN /\ message' = ErrorMsg(ErrText(resp, "Action failed"))
            /\ UNCHANGED modal
       ELSE IF IsModal(resp)
       THEN /\ modal' = resp.modal
            /\ UNCHANGED message
       ELSE /\ message' = SuccessMsg(fcCalls[i].label \o <<resp.status>>)
            /\ UNCHANGED modal
    /\ actionLoading' = FinallyActionLoading(resp)
    /\ fcCalls' = RemoveAt(fcCalls, i)
    /\ UNCHANGED <<fsVars, termVars, appVars, cv_api_key, fcData, fcLoading, fcMainMessage, fcSendingMessage,
                   fcInterval, fcFetches>>

\* closeModal
CloseModal ==
    /\ modal # NULL
    /\ modal' = NULL
    /\ UNCHANGED <<fsVars, termVars, appVars, cv_api_key, fcData, fcLoading, actionLoading, message,
                   fcMainMessage, fcSendingMessage, fcInterval, fcFetches, fcCalls>>

\* onChange of the message input (disabled={sendingMessage})
FcSetMainMessage(t) ==
    /\ FcMainCard /\ ~fcSendingMessage
    /\ t # fcMainMessage
    /\ fcMainMessage' = t
    /\ UNCHANGED <<fsVars, termVars, appVars, cv_api_key, fcData, fcLoading, actionLoading, message, modal,
                   fcSendingMessage, fcInterval, fcFetches, fcCalls>>

\* sendMessageToMain up to its await of the POST, or to an early return
FcSendMessageToMain ==
    /\ FcMainCard /\ ~fcSendingMessage
    /\ IF Trim(fcMainMessage) = ""
       THEN UNCHANGED <<message, fcSendingMessage, fcCalls>>
       ELSE IF cv_api_key = ""
       THEN /\ message' = ErrorMsg("API key required. Enter it below.")
            /\ UNCHANGED <<fcSendingMessage, fcCalls>>
       ELSE /\ fcSendingMessage' = TRUE
            /\ fcCalls' = Append(fcCalls,
                     Call("sendMessageToMain", <<"/fleet/send-message", "cv2-main">>,
                          <<>>, GetApiKey, fcMainMessage))
            /\ UNCHANGED message
    /\ UNCHANGED <<fsVars, termVars, appVars, cv_api_key, fcData, fcLoading, actionLoading, modal,
                   fcMainMessage, fcInterval, fcFetches>>

\* sendMessageToMain from the POST's settling to its end
FcSendMessageSettle(i, resp) ==
    /\ fcCalls[i].fn = "sendMessageToMain"
    /\ IF Threw(resp)
       THEN /\ message' = ErrorMsg(ErrText(resp, "Failed"))
            /\ UNCHANGED fcMainMessage
       ELSE /\ fcMainMessage' = ""
            /\ message' = SuccessMsg(<<"Message sent to Main">>)
    /\ fcSendingMessage' = FALSE
    /\ fcCalls' = RemoveAt(fcCalls, i)
    /\ UNCHANGED <<fsVars, termVars, appVars, cv_api_key, fcData, fcLoading, actionLoading, modal,
                   fcInterval, fcFetches>>

\* onChange of the API key input: localStorage.setItem('cv_api_key', value)
FcSetApiKey(k) ==
    /\ FcRendered
    /\ k # cv_api_key
    /\ cv_api_key' = k
    /\ UNCHANGED <<fcVars, fsVars, termVars, appVars>>

FcNext ==
    \/ FcPollTick
    \/ \E i \in DOMAIN fcFetches, r \in StatusResponses : FcFetchStatusSettle(i, r)
    \/ ClickDoAction
    \/ \E i \in DOMAIN fcCalls, resp \in Responses : DoActionSettle(i, resp)
    \/ \E i \in DOMAIN fcFetches, j \in DOMAIN fcCalls, r \in StatusResponses :
           DoActionRefreshSettle(i, j, r)
    \/ ClickAgentContext
    \/ ClickFleetContext
    \/ \E i \in DOMAIN fcCalls, resp \in Responses : DoContextActionSettle(i, resp)
    \/ CloseModal
    \/ \E t \in Texts : FcSetMainMessage(t)
    \/ FcSendMessageToMain
    \/ \E i \in DOMAIN fcCalls, resp \in Responses : FcSendMessageSettle(i, resp)
    \/ \E k \in ApiKeys : FcSetApiKey(k)

----------------------------------------------------------------------------
(* Status view: FleetStatus.tsx *)

\* The three render guards: `if (loading && !data)` shows the loading line,
\* `if (error)` shows the error alone, `if (!data) return null`.  The cards,
\* their buttons and the modals exist only past the three.
FsRendered == fsMounted /\ error = NULL /\ fsData # NULL

\* Mutant: the offline count is recounted from the agents array
OfflineShownRecounted == Cardinality({a \in AgentsOf(fsData) : ~a.online})

\* The offline stat card: {data.total_count - data.online_count}
OfflineShown == Get(fsData).total_count - Get(fsData).online_count

FsMainCard == FsRendered /\ \E a \in AgentsOf(fsData) : a.id = "cv2-main"

\* What POST /api/fleet/context/inbox/{id} may also answer: {inbox_files: [...]}
InboxFiles == {<<>>, <<"m1.md">>}

CONNECTING == "connecting"
OPEN == "open"
CLOSED == "closed"

\* setInterval returns an id no live timer or ref holds
FreshTimerId ==
    LET used == {t.id : t \in fsIntervals} \cup {pollingIntervalRef}
    IN  CHOOSE n \in 1..(Cardinality(used) + 1) :
            n \notin used /\ \A m \in 1..(n - 1) : m \in used

ClearInterval(timers, id) == {t \in timers : t.id # id}

FsCall(fn, key, body, agentId) ==
    [fn |-> fn, key |-> key, body |-> body, agentId |-> agentId, live |-> TRUE]

\* useState initial values and useRef(null)
FsFreshState ==
    /\ fsData = NULL
    /\ fsLoading = TRUE
    /\ error = NULL
    /\ connectionType = "sse"
    /\ inboxModal = NULL
    /\ inboxLoading = NULL
    /\ fleetActionLoading = NULL
    /\ fleetMessage = NULL
    /\ fsMainMessage = ""
    /\ fsSendingMessage = FALSE
    /\ pollingIntervalRef = 0
    /\ terminalModal = NULL
    /\ terminalLoading = FALSE
    /\ terminalPollRef = 0

\* The same values given to a component being discarded or constructed
FsResetState ==
    /\ fsData' = NULL
    /\ fsLoading' = TRUE
    /\ error' = NULL
    /\ connectionType' = "sse"
    /\ inboxModal' = NULL
    /\ inboxLoading' = NULL
    /\ fleetActionLoading' = NULL
    /\ fleetMessage' = NULL
    /\ fsMainMessage' = ""
    /\ fsSendingMessage' = FALSE
    /\ pollingIntervalRef' = 0
    /\ terminalModal' = NULL
    /\ terminalLoading' = FALSE
    /\ terminalPollRef' = 0

\* Mutant: the mount effect also fetches a first snapshot
FsInitFetching ==
    /\ fsMounted = TRUE
    /\ FsFreshState
    /\ sources = <<[state |-> CONNECTING, live |-> TRUE]>>
    /\ eventSourceRef = 1
    /\ fsIntervals = {}
    /\ fsTimeouts = <<>>
    /\ fsFetches = <<[live |-> TRUE, superseded |-> FALSE]>>
    /\ fsCalls = <<>>
    /\ fsTermIntervals = {}
    /\ fsTermFetches = <<>>
    /\ activations = 1
    /\ delivered = 0
    /\ errored = 0

\* The view mounted and its effect ran startSSE(): one EventSource, connecting
FsInit ==
    /\ fsMounted = TRUE
    /\ FsFreshState
    /\ sources = <<[state |-> CONNECTING, live |-> TRUE]>>
    /\ eventSourceRef = 1
    /\ fsIntervals = {}
    /\ fsTimeouts = <<>>
    /\ fsFetches = <<>>
    /\ fsCalls = <<>>
    /\ fsTermIntervals = {}
    /\ fsTermFetches = <<>>
    /\ activations = 1
    /\ delivered = 0
    /\ errored = 0

\* A fetchStatus call awaiting its GET.  superseded is history, no program
\* state: the snapshot of a request issued later has been applied meanwhile.
StatusFetch(live) == [live |-> live, superseded |-> FALSE]

\* fetchStatus up to its await
FsFetchStatus(fetches) == Append(fetches, StatusFetch(TRUE))

\* catch (err) of fetchStatus: err.message
FsStatusErrText(r) ==
    IF ~r.net THEN NetErrText
    ELSE IF ~r.ok THEN "Failed to fetch fleet status"
    ELSE ParseErrText

\* The calls in flight once call i has settled with r: those issued before
\* it are superseded when its snapshot is applied
Superseding(fetches, i, r) ==
    IF fetches[i].live /\ StatusOk(r)
    THEN [j \in DOMAIN fetches |->
             IF j < i /\ fetches[j].live
             THEN [fetches[j] EXCEPT !.superseded = TRUE]
             ELSE fetches[j]]
    ELSE fetches

\* Mutant: a successful fetch leaves the error state as it was
FsStatusErrorSticky(r) == IF StatusOk(r) THEN error ELSE Some(FsStatusErrText(r))

\* setError(null) after setData, setError(err.message) in the catch
FsStatusError(r) == IF StatusOk(r) THEN NULL ELSE Some(FsStatusErrText(r))

\* fetchStatus from its await to its end.  The setters of an unmounted
\* component change nothing.
FsFetchStatusSettle(i, r) ==
    /\ fsFetches' = RemoveAt(Superseding(fsFetches, i, r), i)
    /\ IF fsFetches[i].live
       THEN /\ fsData' = IF StatusOk(r) THEN r.snap ELSE fsData
            /\ error' = FsStatusError(r)
            /\ fsLoading' = FALSE
       ELSE UNCHANGED <<fsData, error, fsLoading>>
    /\ UNCHANGED <<cv_api_key, fcVars, appVars, termVars, fsMounted, connectionType, inboxModal,
                   inboxLoading, fleetActionLoading, fleetMessage, fsMainMessage,
                   fsSendingMessage, eventSourceRef, pollingIntervalRef, sources,
                   fsIntervals, fsTimeouts, fsCalls, activations, delivered, errored>>

\* Mutant: startPolling only arms the interval
StartPollingNoFetch ==
    /\ UNCHANGED fsFetches
    /\ LET cleared == IF pollingIntervalRef # 0
                      THEN ClearInterval(fsIntervals, pollingIntervalRef)
                      ELSE fsIntervals
           id == FreshTimerId
       IN  /\ fsIntervals' = cleared \cup {[id |-> id, kind |-> "poll", live |-> TRUE]}
           /\ pollingIntervalRef' = id

\* Mutant: startPolling fetches once and arms no interval
StartPollingFetchOnly ==
    /\ fsFetches' = FsFetchStatus(fsFetches)
    /\ UNCHANGED <<fsIntervals, pollingIntervalRef>>

\* startPolling
StartPolling ==
    /\ fsFetches' = FsFetchStatus(fsFetches)
    /\ LET cleared == IF pollingIntervalRef # 0
                      THEN ClearInterval(fsIntervals, pollingIntervalRef)
                      ELSE fsIntervals
           id == FreshTimerId
       IN  /\ fsIntervals' = cleared \cup {[id |-> id, kind |-> "poll", live |-> TRUE]}
           /\ pollingIntervalRef' = id

\* eventSource.onopen of source k
SseOpen(k) ==
    /\ sources[k].live /\ sources[k].state = CONNECTING
    /\ sources' = [sources EXCEPT ![k].state = OPEN]
    /\ connectionType' = "sse"
    /\ IF pollingIntervalRef # 0
       THEN /\ fsIntervals' = ClearInterval(fsIntervals, pollingIntervalRef)
            /\ pollingIntervalRef' = 0
       ELSE UNCHANGED <<fsIntervals, pollingIntervalRef>>
    /\ UNCHANGED <<cv_api_key, fcVars, appVars, termVars, fsMounted, fsData, fsLoading, error,
                   inboxModal, inboxLoading, fleetActionLoading, fleetMessage,
                   fsMainMessage, fsSendingMessage, eventSourceRef, fsTimeouts,
                   fsFetches, fsCalls, activations, delivered, errored>>

\* event.data of a stream message: a snapshot, an object with an error
\* field, or text JSON.parse rejects
StreamMessages ==
    { [kind |-> "snapshot", snap |-> Some(s)] : s \in Snapshots }
    \cup { [kind |-> "error", snap |-> NULL], [kind |-> "garbage", snap |-> NULL] }

\* Mutant: the error indicator of a parsed message is not looked at
AppliedUnlessUnparsable(m) == m.kind # "garbage"

\* JSON.parse(event.data) returned and `!json.error` held
Applied(m) == m.kind = "snapshot"

\* eventSource.onmessage of source k
SseMessage(k, m) ==
    /\ sources[k].live /\ sources[k].state = OPEN
    /\ delivered < MaxDelivered
    /\ delivered' = delivered + 1
    /\ IF Applied(m)
       THEN /\ fsData' = m.snap
            /\ error' = NULL
            /\ fsLoading' = FALSE
       ELSE UNCHANGED <<fsData, error, fsLoading>>
    /\ UNCHANGED <<cv_api_key, fcVars, appVars, termVars, fsMounted, connectionType, inboxModal,
                   inboxLoading, fleetActionLoading, fleetMessage, fsMainMessage,
                   fsSendingMessage, eventSourceRef, pollingIntervalRef, sources,
                   fsIntervals, fsTimeouts, fsFetches, fsCalls, activations, errored>>

\* startSSE
StartSSE ==
    LET closed == IF eventSourceRef # 0
                  THEN [sources EXCEPT ![eventSourceRef].state = CLOSED]
                  ELSE sources
    IN  /\ sources' = Append(closed, [state |-> CONNECTING, live |-> TRUE])
        /\ eventSourceRef' = Len(sources) + 1

\* Mutant: onerror falls back to polling and also reopens the stream
SseErrorReconnecting(k) ==
    /\ sources[k].live /\ sources[k].state \in {CONNECTING, OPEN}
    /\ sources' = Append([sources EXCEPT ![k].state = CLOSED],
                         [state |-> CONNECTING, live |-> TRUE])
    /\ eventSourceRef' = Len(sources) + 1
    /\ connectionType' = "polling"
    /\ StartPolling
    /\ errored' = errored + 1
    /\ UNCHANGED <<cv_api_key, fcVars, appVars, termVars, fsMounted, fsData, fsLoading, error,
                   inboxModal, inboxLoading, fleetActionLoading, fleetMessage,
                   fsMainMessage, fsSendingMessage, fsTimeouts, fsCalls,
                   activations, delivered>>

\* Mutant: onerror falls back to polling without eventSource.close()
SseErrorKeepingStream(k) ==
    /\ sources[k].live /\ sources[k].state \in {CONNECTING, OPEN}
    /\ UNCHANGED sources
    /\ eventSourceRef' = 0
    /\ connectionType' = "polling"
    /\ StartPolling
    /\ errored' = errored + 1
    /\ UNCHANGED <<cv_api_key, fcVars, appVars, termVars, fsMounted, fsData, fsLoading, error,
                   inboxModal, inboxLoading, fleetActionLoading, fleetMessage,
                   fsMainMessage, fsSendingMessage, fsTimeouts, fsCalls,
                   activations, delivered>>

\* eventSource.onerror of source k: the connection failed before or after
\* it opened
SseError(k) ==
    /\ sources[k].live /\ sources[k].state \in {CONNECTING, OPEN}
    /\ sources' = [sources EXCEPT ![k].state = CLOSED]
    /\ eventSourceRef' = 0
    /\ connectionType' = "polling"
    /\ StartPolling
    /\ errored' = errored + 1
    /\ UNCHANGED <<cv_api_key, fcVars, appVars, termVars, fsMounted, fsData, fsLoading, error,
                   inboxModal, inboxLoading, fleetActionLoading, fleetMessage,
                   fsMainMessage, fsSendingMessage, fsTimeouts, fsCalls,
                   activations, delivered>>

\* Mutant: every poll tick also tries the stream again
FsPollTickRetryingStream(t) ==
    /\ t.kind = "poll" /\ t.live
    /\ Len(fsFetches) < MaxInFlight
    /\ fsFetches' = Append(fsFetches, StatusFetch(t.live))
    /\ StartSSE
    /\ UNCHANGED <<cv_api_key, fcVars, appVars, termVars, fsMounted, fsData, fsLoading, error,
                   connectionType, inboxModal, inboxLoading, fleetActionLoading,
                   fleetMessage, fsMainMessage, fsSendingMessage,
                   pollingIntervalRef, fsIntervals, fsTimeouts, fsCalls,
                   activations, delivered, errored>>

\* a setInterval(fetchStatus, 5000) timer fires
FsPollTick(t) ==
    /\ t.kind = "poll"
    /\ Len(fsFetches) < MaxInFlight
    /\ fsFetches' = Append(fsFetches, StatusFetch(t.live))
    /\ UNCHANGED <<cv_api_key, fcVars, appVars, termVars, fsMounted, fsData, fsLoading, error,
                   connectionType, inboxModal, inboxLoading, fleetActionLoading,
                   fleetMessage, fsMainMessage, fsSendingMessage, eventSourceRef,
                   pollingIntervalRef, sources, fsIntervals, fsTimeouts, fsCalls,
                   activations, delivered, errored>>

\* onChange of the message input (disabled={sendingMessage})
FsSetMainMessage(t) ==
    /\ FsMainCard /\ ~fsSendingMessage
    /\ t # fsMainMessage
    /\ fsMainMessage' = t
    /\ UNCHANGED <<cv_api_key, fcVars, appVars, termVars, fsMounted, fsData, fsLoading, error,
                   connectionType, inboxModal, inboxLoading, fleetActionLoading,
                   fleetMessage, fsSendingMessage, eventSourceRef,
                   pollingIntervalRef, sources, fsIntervals, fsTimeouts, fsFetches,
                   fsCalls, activations, delivered, errored>>

\* sendMessageToMain up to its await of the POST, or to its early return
FsSendMessageToMain ==
    /\ FsMainCard /\ ~fsSendingMessage
    /\ Len(fsTimeouts) < MaxTimeouts
    /\ IF Trim(fsMainMessage) = ""
       THEN UNCHANGED <<fsSendingMessage, fsCalls>>
       ELSE /\ fsSendingMessage' = TRUE
            /\ fsCalls' = Append(fsCalls,
                     FsCall("sendMessageToMain", cv_api_key, fsMainMessage, ""))
    /\ UNCHANGED <<cv_api_key, fcVars, appVars, termVars, fsMounted, fsData, fsLoading, error,
                   connectionType, inboxModal, inboxLoading, fleetActionLoading,
                   fleetMessage, fsMainMessage, eventSourceRef, pollingIntervalRef,
                   sources, fsIntervals, fsTimeouts, fsFetches, activations,
                   delivered, errored>>

\* Mutant: the 3 s timer of fleetInboxCheck is missing
ScheduleClearShortOnly(timeouts, resp, ms, live) ==
    IF Threw(resp) \/ ms > 2000 THEN timeouts
    ELSE Append(timeouts, [ms |-> ms, live |-> live])

\* setTimeout(() => setFleetMessage(null), ms), reached only on the success
\* path, whether or not the component is still mounted
ScheduleClear(timeouts, resp, ms, live) ==
    IF Threw(resp) THEN timeouts ELSE Append(timeouts, [ms |-> ms, live |-> live])

\* sendMessageToMain from the POST's settling to its end
FsSendMessageSettle(i, resp) ==
    /\ fsCalls[i].fn = "sendMessageToMain"
    /\ fsCalls' = RemoveAt(fsCalls, i)
    /\ fsTimeouts' = ScheduleClear(fsTimeouts, resp, 2000, fsCalls[i].live)
    /\ IF fsCalls[i].live
       THEN /\ fsMainMessage' = IF Threw(resp) THEN fsMainMessage ELSE ""
            /\ fleetMessage' = IF Threw(resp) THEN ErrorMsg(ErrText(resp, "Failed"))
                               ELSE SuccessMsg(<<"Message sent to Main">>)
            /\ fsSendingMessage' = FALSE
       ELSE UNCHANGED <<fsMainMessage, fleetMessage, fsSendingMessage>>
    /\ UNCHANGED <<cv_api_key, fcVars, appVars, termVars, fsMounted, fsData, fsLoading, error,
                   connectionType, inboxModal, inboxLoading, fleetActionLoading,
                   eventSourceRef, pollingIntervalRef, sources, fsIntervals,
                   fsFetches, activations, delivered, errored>>

\* fleetInboxCheck up to its await of the POST
\* (button on the 'cv2-main' card, disabled={fleetActionLoading !== null})
FleetInboxCheck ==
    /\ FsMainCard /\ fleetActionLoading = NULL
    /\ Len(fsTimeouts) < MaxTimeouts
    /\ fleetActionLoading' = Some("inbox")
    /\ fleetMessage' = NULL
    /\ fsCalls' = Append(fsCalls, FsCall("fleetInboxCheck", cv_api_key, "", ""))
    /\ UNCHANGED <<cv_api_key, fcVars, appVars, termVars, fsMounted, fsData, fsLoading, error,
                   connectionType, inboxModal, inboxLoading, fsMainMessage,
                   fsSendingMessage, eventSourceRef, pollingIntervalRef, sources,
                   fsIntervals, fsTimeouts, fsFetches, activations, delivered,
                   errored>>

\* fleetInboxCheck from the POST's settling to its end
FleetInboxCheckSettle(i, resp) ==
    /\ fsCalls[i].fn = "fleetInboxCheck"
    /\ fsCalls' = RemoveAt(fsCalls, i)
    /\ fsTimeouts' = ScheduleClear(fsTimeouts, resp, 3000, fsCalls[i].live)
    /\ IF fsCalls[i].live
       THEN /\ fleetMessage' = IF Threw(resp) THEN ErrorMsg(ErrText(resp, "Failed"))
                               ELSE SuccessMsg(<<resp.status>>)
            /\ fleetActionLoading' = NULL
       ELSE UNCHANGED <<fleetMessage, fleetActionLoading>>
    /\ UNCHANGED <<cv_api_key, fcVars, appVars, termVars, fsMounted, fsData, fsLoading, error,
                   connectionType, inboxModal, inboxLoading, fsMainMessage,
                   fsSendingMessage, eventSourceRef, pollingIntervalRef, sources,
                   fsIntervals, fsFetches, activations, delivered, errored>>

\* a pending setTimeout(() => setFleetMessage(null), ms) fires
FsTimeoutFire(i) ==
    /\ fsTimeouts' = RemoveAt(fsTimeouts, i)
    /\ fleetMessage' = IF fsTimeouts[i].live THEN NULL ELSE fleetMessage
    /\ UNCHANGED <<cv_api_key, fcVars, appVars, termVars, fsMounted, fsData, fsLoading, error,
                   connectionType, inboxModal, inboxLoading, fleetActionLoading,
                   fsMainMessage, fsSendingMessage, eventSourceRef,
                   pollingIntervalRef, sources, fsIntervals, fsFetches, fsCalls,
                   activations, delivered, errored>>

\* checkInbox up to its await of the POST
\* (button on every card, disabled={inboxLoading !== null})
CheckInbox(a) ==
    /\ FsRendered /\ a \in AgentsOf(fsData)
    /\ inboxLoading = NULL
    /\ inboxLoading' = Some(a.id)
    /\ fsCalls' = Append(fsCalls, FsCall("checkInbox", cv_api_key, "", a.id))
    /\ UNCHANGED <<cv_api_key, fcVars, appVars, termVars, fsMounted, fsData, fsLoading, error,
                   connectionType, inboxModal, fleetActionLoading, fleetMessage,
                   fsMainMessage, fsSendingMessage, eventSourceRef,
                   pollingIntervalRef, sources, fsIntervals, fsTimeouts, fsFetches,
                   activations, delivered, errored>>

\* Mutant: the catch of checkInbox reports through the feed's error state
InboxCatchSettingError(resp) ==
    IF Threw(resp) THEN Some("Failed to check inbox") ELSE error

\* catch (err) { console.error('Inbox check failed:', err) }: the feed's
\* error state is not touched
InboxCatch(resp) == error

\* checkInbox from the POST's settling to its end; files is json.inbox_files
\* (NULL when absent; an empty array is truthy).  The catch only logs.
CheckInboxSettle(i, resp, files) ==
    /\ fsCalls[i].fn = "checkInbox"
    /\ fsCalls' = RemoveAt(fsCalls, i)
    /\ error' = InboxCatch(resp)
    /\ IF fsCalls[i].live
       THEN /\ inboxModal' = IF ~Threw(resp) /\ files # NULL
                             THEN Some([agentId |-> fsCalls[i].agentId,
                                        files |-> Get(files)])
                             ELSE inboxModal
            /\ inboxLoading' = NULL
       ELSE UNCHANGED <<inboxModal, inboxLoading>>
    /\ UNCHANGED <<cv_api_key, fcVars, appVars, termVars, fsMounted, fsData, fsLoading,
                   connectionType, fleetActionLoading, fleetMessage, fsMainMessage,
                   fsSendingMessage, eventSourceRef, pollingIntervalRef, sources,
                   fsIntervals, fsTimeouts, fsFetches, activations, delivered,
                   errored>>

\* onClick of the inbox modal's overlay or close button: setInboxModal(null)
CloseInboxModal ==
    /\ FsRendered /\ inboxModal # NULL
    /\ inboxModal' = NULL
    /\ UNCHANGED <<cv_api_key, fcVars, appVars, termVars, fsMounted, fsData, fsLoading, error,
                   connectionType, inboxLoading, fleetActionLoading, fleetMessage,
                   fsMainMessage, fsSendingMessage, eventSourceRef,
                   pollingIntervalRef, sources, fsIntervals, fsTimeouts, fsFetches,
                   fsCalls, activations, delivered, errored>>

----------------------------------------------------------------------------
(* Status view: the terminal modal *)

\* What GET /api/fleet/terminal/{id} settles with.
\*   net = FALSE: fetch rejected;  json = FALSE: res.json() rejected
TermResp(net, js, ok, content, err, online) ==
    [net |-> net, json |-> js, ok |-> ok, content |-> content, error |-> err,
     online |-> online]
TermResponses ==
    { TermResp(TRUE, TRUE, TRUE, "$ ls", "", TRUE),
      TermResp(TRUE, TRUE, TRUE, "", "", TRUE),
      TermResp(TRUE, TRUE, FALSE, "", "no session", FALSE),
      TermResp(TRUE, TRUE, FALSE, "", "", FALSE),
      TermResp(TRUE, FALSE, TRUE, "", "", FALSE),
      TermResp(FALSE, FALSE, FALSE, "", "", FALSE) }

\* Mutant: every card opens a terminal
HasTerminalAlways(a) == TRUE

\* `agent.type !== 'desktop' && agent.type !== 'remote'`
HasTerminal(a) == a.type \notin {"desktop", "remote"}

\* A fetchTerminal call awaiting its GET.  closed is history, no program
\* state: closeTerminal has run since the call was issued, and since then
\* openTerminal has not been invoked, the modal has shown nothing and the
\* view has stayed mounted.
TermFetch(agentId, awaited, live) ==
    [agentId |-> agentId, awaited |-> awaited, live |-> live, closed |-> FALSE]

\* The history field of the calls in flight, set by closeTerminal and reset
\* by openTerminal
MarkClosed(fetches, b) == [j \in DOMAIN fetches |-> [fetches[j] EXCEPT !.closed = b]]

\* window.setInterval returns an id no active terminal timer or ref holds
FreshTermTimerId ==
    LET used == {t.id : t \in fsTermIntervals} \cup {terminalPollRef}
    IN  CHOOSE n \in 1..(Cardinality(used) + 1) :
            n \notin used /\ \A m \in 1..(n - 1) : m \in used

\* openTerminal calls still awaiting their first fetchTerminal
OpeningTerminal == {i \in DOMAIN fsTermFetches : fsTermFetches[i].awaited}
\* fetchTerminal calls of a timer or of the refresh button still awaiting
Refetching == {i \in DOMAIN fsTermFetches : ~fsTermFetches[i].awaited}

\* openTerminal up to its await of fetchTerminal (onClick of an agent card;
\* the terminal modal's overlay covers the cards while it is shown)
OpenTerminal(a) ==
    /\ FsRendered /\ a \in AgentsOf(fsData)
    /\ terminalModal = NULL
    /\ HasTerminal(a)
    /\ Cardinality(fsTermIntervals) + Cardinality(OpeningTerminal) < MaxTermTimers
    /\ terminalLoading' = TRUE
    /\ fsTermFetches' = Append(MarkClosed(fsTermFetches, FALSE),
                               TermFetch(a.id, TRUE, TRUE))
    /\ UNCHANGED <<cv_api_key, fcVars, appVars, fsVars, terminalModal, terminalPollRef,
                   fsTermIntervals>>

\* Mutant: the catch shows the exception in the view as well
TerminalAfterShowingThrown(c, r) ==
    IF r.net /\ r.json /\ r.ok /\ r.content # ""
    THEN Some([agentId |-> c.agentId, content |-> r.content, online |-> r.online])
    ELSE IF r.net /\ r.json /\ r.ok
    THEN terminalModal
    ELSE Some([agentId |-> c.agentId,
               content |-> IF ~r.net THEN NetErrText
                           ELSE IF ~r.json THEN ParseErrText
                           ELSE IF r.error # "" THEN r.error
                           ELSE "Failed to fetch terminal",
               online |-> FALSE])

\* what fetchTerminal leaves in terminalModal
TerminalAfter(c, r) ==
    IF r.net /\ r.json /\ r.ok /\ r.content # ""
    THEN Some([agentId |-> c.agentId, content |-> r.content, online |-> r.online])
    ELSE IF r.net /\ r.json /\ ~r.ok
    THEN Some([agentId |-> c.agentId,
               content |-> IF r.error # "" THEN r.error
                           ELSE "Failed to fetch terminal",
               online |-> FALSE])
    ELSE terminalModal

\* fetchTerminal from its await to its end and, for the call openTerminal
\* awaits, openTerminal from there to its end: setTerminalLoading(false),
\* then terminalPollRef.current = window.setInterval(...) with no look at
\* the ref's previous value or at whether the component is still mounted
FetchTerminalSettle(i, r) ==
    LET c == fsTermFetches[i]
        id == FreshTermTimerId
    IN  /\ fsTermFetches' = IF c.live /\ TerminalAfter(c, r) # NULL
                            THEN MarkClosed(RemoveAt(fsTermFetches, i), FALSE)
                            ELSE RemoveAt(fsTermFetches, i)
        /\ terminalModal' = IF c.live THEN TerminalAfter(c, r) ELSE terminalModal
        /\ IF c.awaited
           THEN /\ terminalLoading' = IF c.live THEN FALSE ELSE terminalLoading
                /\ fsTermIntervals' = fsTermIntervals \cup
                       {[id |-> id, agentId |-> c.agentId, live |-> c.live]}
                /\ terminalPollRef' = IF c.live THEN id ELSE terminalPollRef
           ELSE UNCHANGED <<terminalLoading, fsTermIntervals, terminalPollRef>>
        /\ UNCHANGED <<cv_api_key, fcVars, appVars, fsVars>>

\* a setInterval(() => fetchTerminal(agent.id, agent.name), 2000) timer fires
TermTick(t) ==
    /\ Cardinality(Refetching) < MaxTermInFlight
    /\ fsTermFetches' = Append(fsTermFetches, TermFetch(t.agentId, FALSE, t.live))
    /\ UNCHANGED <<cv_api_key, fcVars, appVars, fsVars, terminalModal, terminalLoading,
                   terminalPollRef, fsTermIntervals>>

\* onClick of the modal's refresh button
RefreshTerminal ==
    /\ FsRendered /\ terminalModal # NULL
    /\ Cardinality(Refetching) < MaxTermInFlight
    /\ fsTermFetches' = Append(fsTermFetches,
                               TermFetch(Get(terminalModal).agentId, FALSE, TRUE))
    /\ UNCHANGED <<cv_api_key, fcVars, appVars, fsVars, terminalModal, terminalLoading,
                   terminalPollRef, fsTermIntervals>>

\* closeTerminal (onClick of the modal's overlay or close button)
CloseTerminal ==
    /\ FsRendered /\ terminalModal # NULL
    /\ terminalModal' = NULL
    /\ IF terminalPollRef # 0
       THEN /\ fsTermIntervals' = ClearInterval(fsTermIntervals, terminalPollRef)
            /\ terminalPollRef' = 0
       ELSE UNCHANGED <<fsTermIntervals, terminalPollRef>>
    /\ fsTermFetches' = MarkClosed(fsTermFetches, TRUE)
    /\ UNCHANGED <<cv_api_key, fcVars, appVars, fsVars, terminalLoading>>

----------------------------------------------------------------------------
(* Status view: teardown and reactivation *)

\* Mutant: what is awaiting stays bound to the mounted view
DetachNothing(s) == s

\* The setters and refs closed over by what is awaiting or pending belong to
\* the unmounted component from now on
Detach(s) == [j \in DOMAIN s |-> [s[j] EXCEPT !.live = FALSE]]

\* The terminal timers left by the effect's cleanup:
\* if (terminalPollRef.current) clearInterval(terminalPollRef.current)
CleanupTermIntervals ==
    IF terminalPollRef # 0
    THEN ClearInterval(fsTermIntervals, terminalPollRef)
    ELSE fsTermIntervals

\* Mutant: the cleanup leaves the fallback poller running
CleanupIntervalsKeepingPoller == fsIntervals

\* The timers left by the effect's cleanup:
\* if (pollingIntervalRef.current) clearInterval(pollingIntervalRef.current)
CleanupIntervals ==
    IF pollingIntervalRef # 0
    THEN ClearInterval(fsIntervals, pollingIntervalRef)
    ELSE fsIntervals

\* The effect's cleanup, then the component's state and refs are discarded.
\* What was awaiting or pending keeps running against the detached component.
FsUnmount ==
    /\ fsMounted
    /\ fsMounted' = FALSE
    /\ sources' = Detach(IF eventSourceRef # 0
                         THEN [sources EXCEPT ![eventSourceRef].state = CLOSED]
                         ELSE sources)
    /\ fsIntervals' = { [t EXCEPT !.live = FALSE] : t \in CleanupIntervals }
    /\ fsTimeouts' = Detach(fsTimeouts)
    /\ fsFetches' = Detach(fsFetches)
    /\ fsCalls' = Detach(fsCalls)
    /\ eventSourceRef' = 0
    /\ fsTermIntervals' = { [t EXCEPT !.live = FALSE] : t \in CleanupTermIntervals }
    /\ fsTermFetches' = MarkClosed(Detach(fsTermFetches), FALSE)
    /\ FsResetState
    /\ UNCHANGED <<cv_api_key, fcVars, appVars, activations, delivered, errored>>

\* The view is mounted again: fresh state and refs, then the effect runs
\* startSSE()
FsMount ==
    /\ ~fsMounted
    /\ activations < MaxActivations
    /\ activations' = activations + 1
    /\ fsMounted' = TRUE
    /\ FsResetState
    /\ StartSSE
    /\ delivered' = 0
    /\ errored' = 0
    /\ UNCHANGED <<cv_api_key, fcVars, appVars, fsIntervals, fsTimeouts, fsFetches, fsCalls,
                   fsTermIntervals, fsTermFetches>>

----------------------------------------------------------------------------
(* App cards: checkAppHealth *)

\* STATIC_APPS entries; healthUrl is optional in StaticApp
StaticApps ==
    { [id |-> "homepage", healthUrl |-> Some("http://localhost:3000")],
      [id |-> "pm", healthUrl |-> Some("http://localhost:3001")],
      [id |-> "bare", healthUrl |-> NULL] }

\* A slot no checkAppHealth call occupies
IdleProbe ==
    [pc |-> "idle", app |-> "", requested |-> FALSE, timer |-> FALSE,
     aborted |-> FALSE, result |-> NULL]

AppIdle == probes = [i \in 1..MaxProbes |-> IdleProbe]

\* checkAppHealth up to its await of the HEAD request, or to its early
\* return: `if (!app.healthUrl) return false`, else new AbortController(),
\* setTimeout(() => controller.abort(), 2000), fetch(..., {signal})
CheckAppHealth(i, app) ==
    /\ probes[i].pc = "idle" /\ ~probes[i].timer
    /\ probes' = [probes EXCEPT ![i] =
           IF app.healthUrl = NULL
           THEN [pc |-> "done", app |-> app.id, requested |-> FALSE,
                 timer |-> FALSE, aborted |-> FALSE, result |-> Some(FALSE)]
           ELSE [pc |-> "fetch", app |-> app.id, requested |-> TRUE,
                 timer |-> TRUE, aborted |-> FALSE, result |-> NULL]]
    /\ UNCHANGED <<cv_api_key, fcVars, fsVars, termVars>>

\* the HEAD request is answered (an opaque no-cors response, whatever its
\* status): clearTimeout(timeout); return true
HealthAnswer(i) ==
    /\ probes[i].pc = "fetch"
    /\ probes' = [probes EXCEPT ![i].pc = "done", ![i].timer = FALSE,
                                ![i].result = Some(TRUE)]
    /\ UNCHANGED <<cv_api_key, fcVars, fsVars, termVars>>

\* the HEAD request is rejected by the network: catch { return false };
\* the timeout is not cleared on this path
HealthReject(i) ==
    /\ probes[i].pc = "fetch"
    /\ probes' = [probes EXCEPT ![i].pc = "done", ![i].result = Some(FALSE)]
    /\ UNCHANGED <<cv_api_key, fcVars, fsVars, termVars>>

\* Mutant: the timeout fires without aborting the request
HealthTimeoutNotAborting(i) ==
    /\ probes[i].timer
    /\ probes' = [probes EXCEPT ![i].timer = FALSE]
    /\ UNCHANGED <<cv_api_key, fcVars, fsVars, termVars>>

\* the 2000 ms timeout fires: controller.abort().  A request still awaited
\* rejects with an AbortError and the catch returns false; after the call
\* has returned the abort has no effect.
HealthTimeout(i) ==
    /\ probes[i].timer
    /\ probes' = [probes EXCEPT ![i] =
           IF probes[i].pc = "fetch"
           THEN [@ EXCEPT !.pc = "done", !.timer = FALSE, !.aborted = TRUE,
                          !.result = Some(FALSE)]
           ELSE [@ EXCEPT !.timer = FALSE, !.aborted = TRUE]]
    /\ UNCHANGED <<cv_api_key, fcVars, fsVars, termVars>>

\* checkAllApps takes the call's result: status[app.id] = await checkAppHealth(app)
HealthResult(i) ==
    /\ probes[i].pc = "done"
    /\ probes' = [probes EXCEPT ![i] = [IdleProbe EXCEPT !.timer = probes[i].timer]]
    /\ UNCHANGED <<cv_api_key, fcVars, fsVars, termVars>>

HealthNext ==
    \/ \E i \in 1..MaxProbes, app \in StaticApps : CheckAppHealth(i, app)
    \/ \E i \in 1..MaxProbes : HealthAnswer(i)
    \/ \E i \in 1..MaxProbes : HealthReject(i)
    \/ \E i \in 1..MaxProbes : HealthTimeout(i)
    \/ \E i \in 1..MaxProbes : HealthResult(i)

----------------------------------------------------------------------------
(* Specifications *)

\* The status view has not been activated
FsIdle ==
    /\ fsMounted = FALSE
    /\ FsFreshState
    /\ sources = <<>>
    /\ eventSourceRef = 0
    /\ fsIntervals = {}
    /\ fsTimeouts = <<>>
    /\ fsFetches = <<>>
    /\ fsCalls = <<>>
    /\ fsTermIntervals = {}
    /\ fsTermFetches = <<>>
    /\ activations = 0
    /\ delivered = 0
    /\ errored = 0

\* The control view has not been activated
FcIdle ==
    /\ fcData = NULL
    /\ fcLoading = TRUE
    /\ actionLoading = NULL
    /\ message = NULL
    /\ modal = NULL
    /\ fcMainMessage = ""
    /\ fcSendingMessage = FALSE
    /\ fcInterval = FALSE
    /\ fcFetches = <<>>
    /\ fcCalls = <<>>

\* The status view's live feed: stream, fallback poller, teardown and
\* reactivation
FeedNext ==
    \/ \E k \in DOMAIN sources : SseOpen(k)
    \/ \E k \in DOMAIN sources, m \in StreamMessages : SseMessage(k, m)
    \/ \E k \in DOMAIN sources : SseError(k)
    \/ \E t \in fsIntervals : FsPollTick(t)
    \/ \E i \in DOMAIN fsFetches, r \in StatusResponses : FsFetchStatusSettle(i, r)
    \/ FsUnmount
    \/ FsMount

\* The status view's action handlers, the stream delivering the snapshots
BannerNext ==
    \/ \E k \in DOMAIN sources : SseOpen(k)
    \/ \E k \in DOMAIN sources, m \in StreamMessages : SseMessage(k, m)
    \/ \E t \in Texts : FsSetMainMessage(t)
    \/ FsSendMessageToMain
    \/ \E i \in DOMAIN fsCalls, resp \in Responses : FsSendMessageSettle(i, resp)
    \/ FleetInboxCheck
    \/ \E i \in DOMAIN fsCalls, resp \in Responses : FleetInboxCheckSettle(i, resp)
    \/ \E i \in DOMAIN fsTimeouts : FsTimeoutFire(i)
    \/ \E a \in AgentsOf(fsData) : CheckInbox(a)
    \/ \E i \in DOMAIN fsCalls, resp \in Responses,
          files \in {NULL} \cup {Some(f) : f \in InboxFiles} :
              CheckInboxSettle(i, resp, files)
    \/ CloseInboxModal

\* The status view's terminal modal, with the stream delivering the
\* snapshots, its failure with the first fallback fetch, and teardown
TerminalNext ==
    \/ \E k \in DOMAIN sources : SseOpen(k)
    \/ \E k \in DOMAIN sources, m \in StreamMessages : SseMessage(k, m)
    \/ \E k \in DOMAIN sources : SseError(k)
    \/ \E i \in DOMAIN fsFetches, r \in StatusResponses : FsFetchStatusSettle(i, r)
    \/ FsUnmount
    \/ \E a \in AgentsOf(fsData) : OpenTerminal(a)
    \/ \E i \in DOMAIN fsTermFetches, r \in TermResponses : FetchTerminalSettle(i, r)
    \/ \E t \in fsTermIntervals : TermTick(t)
    \/ RefreshTerminal
    \/ CloseTerminal

\* App.tsx mounts one view at a time.  The control tab is the active one:
ControlInit == cv_api_key \in ApiKeys /\ FcInit /\ FsIdle /\ AppIdle
\* the status tab is the active one:
StatusInit == cv_api_key \in ApiKeys /\ FsInit /\ FcIdle /\ AppIdle

\* The control view
SpecControl == ControlInit /\ [][FcNext]_vars

\* The control view's dispatchers alone: doAction with its forced refresh,
\* doContextAction with its modal, and the 5 s poll beside them
ActionNext ==
    \/ FcPollTick
    \/ \E i \in DOMAIN fcFetches, r \in StatusResponses : FcFetchStatusSettle(i, r)
    \/ ClickDoAction
    \/ \E i \in DOMAIN fcCalls, resp \in Responses : DoActionSettle(i, resp)
    \/ \E i \in DOMAIN fcFetches, j \in DOMAIN fcCalls, r \in StatusResponses :
           DoActionRefreshSettle(i, j, r)
    \/ ClickAgentContext
    \/ ClickFleetContext
    \/ \E i \in DOMAIN fcCalls, resp \in Responses : DoContextActionSettle(i, resp)
    \/ CloseModal
SpecAction == ControlInit /\ [][ActionNext]_vars

\* Every network request eventually settles: the POST of a dispatcher and
\* the GET of the refresh doAction awaits
FairSpecAction ==
    /\ SpecAction
    /\ WF_vars(\E i \in DOMAIN fcCalls, resp \in Responses : DoActionSettle(i, resp))
    /\ WF_vars(\E i \in DOMAIN fcCalls, resp \in Responses :
                   DoContextActionSettle(i, resp))
    /\ WF_vars(\E i \in DOMAIN fcFetches, j \in DOMAIN fcCalls, r \in StatusResponses :
                   DoActionRefreshSettle(i, j, r))

\* The status view's live feed
SpecFeed == StatusInit /\ [][FeedNext]_vars

\* The status view's action handlers
SpecBanner == StatusInit /\ [][BannerNext]_vars

\* The status view's terminal modal; GET /api/fleet/terminal/{id} and
\* GET /api/fleet/status carry no credential
TerminalInit == StatusInit /\ cv_api_key = ""
SpecTerminal == TerminalInit /\ [][TerminalNext]_vars

\* The terminal modal alone, under a stream that stays open
TranscriptNext ==
    \/ \E k \in DOMAIN sources : SseOpen(k)
    \/ \E k \in DOMAIN sources, m \in StreamMessages : SseMessage(k, m)
    \/ \E a \in AgentsOf(fsData) : OpenTerminal(a)
    \/ \E i \in DOMAIN fsTermFetches, r \in TermResponses : FetchTerminalSettle(i, r)
    \/ \E t \in fsTermIntervals : TermTick(t)
    \/ RefreshTerminal
    \/ CloseTerminal
SpecTranscript == TerminalInit /\ [][TranscriptNext]_vars

\* The status view's two ancillary fetches, terminal and inbox, beside the
\* feed: stream and fallback to polling.  No teardown; the fallback's first
\* fetch stays in flight and the terminal timer does not fire
AncillaryNext ==
    \/ \E k \in DOMAIN sources : SseOpen(k)
    \/ \E k \in DOMAIN sources, m \in StreamMessages : SseMessage(k, m)
    \/ \E k \in DOMAIN sources : SseError(k)
    \/ \E a \in AgentsOf(fsData) : OpenTerminal(a)
    \/ \E i \in DOMAIN fsTermFetches, r \in TermResponses : FetchTerminalSettle(i, r)
    \/ CloseTerminal
    \/ \E a \in AgentsOf(fsData) : CheckInbox(a)
    \/ \E i \in DOMAIN fsCalls, resp \in Responses, files \in {NULL} \cup {Some(f) : f \in InboxFiles} :
           CheckInboxSettle(i, resp, files)
    \/ CloseInboxModal
SpecAncillary == TerminalInit /\ [][AncillaryNext]_vars

\* The app cards' health probes.  A pending setTimeout fires: the event loop
\* runs every timer that is due.
HealthInit == cv_api_key = "" /\ FcIdle /\ FsIdle /\ AppIdle
SpecHealth == HealthInit /\ [][HealthNext]_vars
FairSpecHealth ==
    SpecHealth /\ \A i \in 1..MaxProbes : WF_vars(HealthTimeout(i))

\* The action handlers of whichever view is active
Init == ControlInit \/ StatusInit
Next == FcNext \/ BannerNext
Spec == Init /\ [][Next]_vars

----------------------------------------------------------------------------
(* Observations the claims are stated with *)

Dispatchers == {"doAction", "doContextAction"}

\* calls of the control view whose POST has not settled
PostsInFlight(fns) ==
    {i \in DOMAIN fcCalls : fcCalls[i].fn \in fns /\ fcCalls[i].pc = "post"}

\* GETs issued by doAction's forced refresh that have not settled
ForcedInFlight == {i \in DOMAIN fcFetches : fcFetches[i].origin = "doAction"}

\* doAction calls past a success response, awaiting their refresh
Refreshing ==
    {j \in DOMAIN fcCalls :
        fcCalls[j].fn = "doAction" /\ fcCalls[j].pc = "refresh" /\ fcCalls[j].ok}

\* a response arrived and its status is not a success status
NonSuccess(resp) == resp.net /\ ~resp.ok
Failures == {resp \in Responses : NonSuccess(resp)}

LiveTimeouts == {i \in DOMAIN fsTimeouts : fsTimeouts[i].live}
LivePollTimers == {t \in fsIntervals : t.kind = "poll" /\ t.live}
LiveSources == {k \in DOMAIN sources : sources[k].live}
\* fetchStatus calls in flight that belong to a torn-down activation
DeadFetches == {i \in DOMAIN fsFetches : ~fsFetches[i].live}
\* fetchTerminal calls in flight that belong to a torn-down activation
DeadTermFetches == {i \in DOMAIN fsTermFetches : ~fsTermFetches[i].live}

----------------------------------------------------------------------------
(* Claims *)

C2_MarkerClearedAfterSettle ==
    (\A i \in DOMAIN fcCalls : fcCalls[i].fn \notin Dispatchers)
        => actionLoading = NULL

C2_Witness ==
    /\ message = ErrorMsg("Action failed")
    /\ actionLoading = NULL
    /\ fcCalls = <<>>

\* C3: the step in which doContextAction handles a success response with
\* status 'modal' and a modal descriptor sets modal to that descriptor,
\* clears actionLoading, shows no banner and issues no snapshot fetch.
C3_ModalOutcome ==
    [][fcCalls' # fcCalls =>
         \A i \in DOMAIN fcCalls, resp \in Responses :
            ( /\ resp.net /\ resp.json /\ resp.ok
              /\ resp.status = "modal" /\ resp.modal # NULL
              /\ DoContextActionSettle(i, resp) )
            => ( /\ modal' = resp.modal
                 /\ actionLoading' = NULL
                 /\ message' = message
                 /\ fcFetches' = fcFetches )]_vars

\* a later action is in flight while the modal is still unacknowledged
C3_Witness ==
    /\ modal = Some(ModalT)
    /\ actionLoading # NULL

FailedText(resp, fallback) ==
    IF ~resp.json THEN ParseErrText
    ELSE IF resp.error # "" THEN resp.error
    ELSE fallback

C6_ModalUntilClosed ==
    [][modal # NULL => (modal' # NULL \/ CloseModal)]_vars

\* the modal is shown beside the banner of an action that completed
C6_Witness ==
    /\ modal # NULL
    /\ message # NULL
    /\ Get(message).type = "success"
    /\ fcData # NULL

C8_RefreshAfterSuccess ==
    /\ Cardinality(ForcedInFlight) = Cardinality(Refreshing)
    /\ ForcedInFlight # {} => PostsInFlight({"doAction"}) = {}

\* the forced refresh is in flight beside a GET of the poll timer
C8_Witness ==
    /\ ForcedInFlight # {}
    /\ Refreshing # {}
    /\ Len(fcFetches) > Cardinality(ForcedInFlight)
    /\ actionLoading # NULL

\* C9: onerror runs at most once in an activation; the step in which it
\* runs closes the channel, sets the mode to polling, issues one snapshot
\* fetch and arms the poll timer; and from then on, while the view is
\* mounted, the mode is polling and exactly one poll timer is active.
C9_ErrorFallsBackOnce ==
    /\ [](/\ errored <= 1
          /\ (fsMounted /\ errored = 1)
                => /\ connectionType = "polling"
                   /\ Cardinality(LivePollTimers) = 1
                   /\ \E t \in LivePollTimers : t.id = pollingIntervalRef)
    /\ [][errored' = errored + 1
            => /\ \E k \in LiveSources :
                     sources[k].state # CLOSED /\ sources'[k].state = CLOSED
               /\ eventSourceRef' = 0
               /\ connectionType' = "polling"
               /\ fsFetches' = Append(fsFetches, StatusFetch(TRUE))
               /\ LivePollTimers' # {}]_vars

\* the channel errored after messages had been delivered
C9_Witness ==
    /\ errored = 1
    /\ delivered >= 1
    /\ connectionType = "polling"
    /\ fsFetches # <<>>
    /\ LivePollTimers # {}

\* C10: every activation constructs exactly one EventSource, and after a
\* channel error no EventSource of the activation is connecting or open.
C10_OneStreamPerActivation ==
    /\ Len(sources) = activations
    /\ Cardinality(LiveSources) <= 1
    /\ errored >= 1 => \A k \in DOMAIN sources : sources[k].state = CLOSED

\* the second activation opened its own stream, which errored
C10_Witness ==
    /\ activations = 2
    /\ fsMounted
    /\ errored = 1
    /\ Len(sources) = 2


\* C11: when the stream opens, the connection mode becomes "sse" and the
\* fallback poll timer is cancelled; as long as the stream stays open the
\* mode is "sse" and no fallback poll timer is active.
C11_OpenStopsPoller ==
    /\ [](\A k \in LiveSources :
             sources[k].state = OPEN
             => /\ connectionType = "sse"
                /\ LivePollTimers = {}
                /\ pollingIntervalRef = 0)
    /\ [][\A k \in DOMAIN sources :
             SseOpen(k) => /\ connectionType' = "sse"
                           /\ LivePollTimers' = {}
                           /\ pollingIntervalRef' = 0]_vars

\* the stream of a second activation has opened, the first activation's
\* stream is closed, and no timer is active
C11_Witness ==
    /\ activations = 2
    /\ Len(sources) = 2 /\ sources[1].state = CLOSED /\ sources[2].state = OPEN
    /\ connectionType = "sse"
    /\ fsIntervals = {}

\* C12: a stream message that carries an error indicator or does not parse
\* changes neither the snapshot, the error, the loading flag nor the
\* connection mode, closes no stream and starts no poller or fetch.
C12_IgnoredMessage ==
    [][\A k \in DOMAIN sources, m \in StreamMessages :
          ( m.kind \in {"error", "garbage"} /\ SseMessage(k, m) )
          => UNCHANGED <<fsData, error, fsLoading, connectionType, sources,
                         eventSourceRef, pollingIntervalRef, fsIntervals,
                         fsFetches>>]_vars

\* two messages were delivered on the open stream and neither was applied
C12_Witness ==
    /\ fsMounted /\ delivered = 2
    /\ fsData = NULL /\ fsLoading
    /\ connectionType = "sse"
    /\ \E k \in LiveSources : sources[k].state = OPEN

\* C13: the cleanup leaves no fallback poll timer behind, and once the view
\* is torn down no further fetchStatus call is started on its behalf.
C13_NoGetAfterTeardown ==
    /\ [](\A t \in fsIntervals : t.kind = "poll" => t.live)
    /\ [][~(fsMounted /\ ~fsMounted')
          => Cardinality(DeadFetches') <= Cardinality(DeadFetches)]_vars

\* torn down in polling mode, and everything that was in flight has settled
C13_Witness ==
    /\ ~fsMounted
    /\ errored >= 1
    /\ fsFetches = <<>>

C15_NoTimerAfterTeardown ==
    ~fsMounted => fsIntervals = {} /\ fsTermIntervals = {}

\* C16: a snapshot the mounted status view holds is displayed: no error is
\* shown in its place.
C16_SnapshotStaysVisible ==
    (fsMounted /\ fsData # NULL) => error = NULL

\* C17: a view whose first snapshot fetch has failed (loading is over, no
\* snapshot is held) shows an error message: the status view its error, the
\* control view an error banner.
C17_FirstLoadErrorVisible ==
    /\ (fsMounted /\ fsData = NULL /\ ~fsLoading) => error # NULL
    /\ (fcInterval /\ fcData = NULL /\ ~fcLoading)
          => (message # NULL /\ Get(message).type = "error")

\* C18: the response of a fetchStatus call never replaces the snapshot
\* applied from a call that was issued after it.
C18_OlderNeverOverwrites ==
    [][fsFetches' # fsFetches =>
         \A i \in DOMAIN fsFetches, r \in StatusResponses :
            ( /\ fsFetches[i].live /\ fsFetches[i].superseded
              /\ FsFetchStatusSettle(i, r) )
            => fsData' = fsData]_vars

\* the agents whose `online` is false in snapshot s
OfflineAgents(s) == {a \in AgentsOf(Some(s)) : ~a.online}

\* C19: after every snapshot delivery, by a stream message or by a poll
\* response, the offline count shown is total_count - online_count of the
\* snapshot just applied.
C19_OfflineFromCounts ==
    [][/\ \A k \in DOMAIN sources, m \in StreamMessages :
             ( m.kind = "snapshot" /\ SseMessage(k, m) )
             => OfflineShown' = Get(m.snap).total_count - Get(m.snap).online_count
       /\ fsFetches' # fsFetches =>
             \A i \in DOMAIN fsFetches, r \in StatusResponses :
                ( fsFetches[i].live /\ StatusOk(r) /\ FsFetchStatusSettle(i, r) )
                => OfflineShown' = Get(r.snap).total_count - Get(r.snap).online_count
      ]_vars

\* in polling mode, after stream messages, the view shows a snapshot whose
\* counts disagree with its agents array
C19_Witness ==
    /\ FsRendered
    /\ errored = 1 /\ delivered >= 1 /\ fsFetches = <<>>
    /\ OfflineShown = 2
    /\ Cardinality(OfflineAgents(Get(fsData))) = 1

\* the per-agent doAction buttons offered for agent a
LifecycleVerbs(a) ==
    {b.endpoint[1] : b \in {c \in DoActionButtons :
                               Len(c.endpoint) = 2 /\ c.endpoint[2] = a.id}}

\* C20: an agent's card offers launch exactly when the agent is offline and
\* kill and restart exactly when it is online, never both; and every
\* launch, kill or restart that is dispatched names an agent of the
\* current snapshot whose liveness allows it.
C20_LifecycleByLiveness ==
    /\ [](FcRendered =>
            \A a \in AgentsOf(fcData) :
               LifecycleVerbs(a) = IF a.online
                                   THEN {"/fleet/kill", "/fleet/restart"}
                                   ELSE {"/fleet/launch"})
    /\ [][Len(fcCalls') = Len(fcCalls) + 1 =>
            LET c == fcCalls'[Len(fcCalls')]
            IN  (c.fn = "doAction" /\ Len(c.endpoint) = 2)
                => \E a \in AgentsOf(fcData) :
                      /\ a.id = c.endpoint[2]
                      /\ c.endpoint[1] = "/fleet/launch" => ~a.online
                      /\ c.endpoint[1] \in {"/fleet/kill", "/fleet/restart"}
                            => a.online]_vars

\* a launch is in flight for an agent that a later snapshot shows online
C20_Witness ==
    \E i \in DOMAIN fcCalls :
       /\ fcCalls[i].fn = "doAction" /\ fcCalls[i].pc = "post"
       /\ fcCalls[i].endpoint = <<"/fleet/launch", "a1">>
       /\ \E a \in AgentsOf(fcData) : a.id = "a1" /\ a.online

----------------------------------------------------------------------------
(* Eligibility of the context verbs *)

\* online == true OR kind == desktop
Eligible(a) == a.online \/ a.type = "desktop"

\* The per-agent context endpoints, POSTed by both views
AgentContextEndpoints == {v[1] : v \in ContextVerbs}

\* C21: on every surface that offers them, save-context, pull-context, nudge
\* and check-inbox are dispatched for an agent only when that agent is online
\* or its kind is desktop.  Stated over the control view's context buttons and
\* the status view's inbox button, which POSTs /fleet/context/inbox/{id} too.
C21_ContextOnlyWhenEligible ==
    [][ /\ Len(fcCalls') > Len(fcCalls) =>
             LET c == fcCalls'[Len(fcCalls')] IN
             (c.fn = "doContextAction" /\ c.endpoint[1] \in AgentContextEndpoints) =>
                 \E a \in AgentsOf(fcData) : a.id = c.endpoint[2] /\ Eligible(a)
        /\ Len(fsCalls') > Len(fsCalls) =>
             LET c == fsCalls'[Len(fsCalls')] IN
             c.fn = "checkInbox" =>
                 \E a \in AgentsOf(fsData) : a.id = c.agentId /\ Eligible(a) ]_vars

----------------------------------------------------------------------------
(* The terminal view and its 2-second poller *)

\* A step in which closeTerminal ran: the shown view goes away while the
\* component stays mounted
ClosedTerminalStep ==
    fsMounted /\ fsMounted' /\ terminalModal # NULL /\ terminalModal' = NULL

\* The terminal timers whose callbacks reach the mounted component
LiveTermTimers == {t \in fsTermIntervals : t.live}

\* C22: after closeTerminal no terminal poll timer remains active, so no
\* further timer-driven GET /api/fleet/terminal/{id} is issued, for every
\* sequence of openTerminal and closeTerminal calls.
C22_NoTimerAfterClose ==
    [][ClosedTerminalStep => fsTermIntervals' = {}]_vars

\* C23: openTerminal for an agent whose kind is desktop or remote issues no
\* terminal fetch, starts no poll timer and opens no terminal view: the fetch
\* openTerminal awaits is issued only for an agent with a terminal, and a
\* timer starts or the view opens only when a terminal fetch settles.
C23_NoTerminalForDesktopOrRemote ==
    [][ /\ Len(fsTermFetches') > Len(fsTermFetches) =>
             LET c == fsTermFetches'[Len(fsTermFetches')] IN
             c.awaited =>
                 \E a \in AgentsOf(fsData) :
                     a.id = c.agentId /\ a.type \notin {"desktop", "remote"}
        /\ (fsTermFetches' = fsTermFetches /\ fsMounted') =>
             /\ fsTermIntervals' \subseteq fsTermIntervals
             /\ terminalModal' \in {terminalModal, NULL} ]_vars

\* Only desktop and remote agents are on show: no card opens a terminal, and
\* no terminal fetch, timer or view exists
C23_Witness ==
    /\ FsRendered
    /\ \E a \in AgentsOf(fsData) : a.type = "desktop"
    /\ \E a \in AgentsOf(fsData) : a.type = "remote"
    /\ \A a \in AgentsOf(fsData) : ~HasTerminal(a)
    /\ fsTermFetches = <<>> /\ fsTermIntervals = {} /\ terminalModal = NULL

\* C24: whenever the terminal poll timer is active the terminal view is open
\* (terminalModal is non-null), including when the initial fetch fails or
\* returns no content.
C24_TimerOnlyWhileOpen ==
    LiveTermTimers # {} => terminalModal # NULL

\* A terminal fetch that failed: fetch or res.json() threw, or !res.ok
TermFailures == {r \in TermResponses : ~r.net \/ ~r.json \/ ~r.ok}

\* The text a failed terminal fetch could put on show
TermErrorTexts ==
    ({r.error : r \in TermFailures} \ {""})
        \cup {"Failed to fetch terminal", NetErrText, ParseErrText}

----------------------------------------------------------------------------
(* The ancillary fetches and the feed *)

\* C26: a failed terminal fetch or a failed inbox fetch leaves the fleet
\* snapshot, the connection mode, the feed's error state and the fallback
\* poll timer unchanged; a terminal failure leaves the inbox state unchanged
\* and an inbox failure leaves the terminal state unchanged.
C26_AncillaryFailureFrame ==
    [][ /\ Len(fsTermFetches') < Len(fsTermFetches) =>
             \A i \in DOMAIN fsTermFetches, r \in TermFailures :
                 FetchTerminalSettle(i, r) =>
                     UNCHANGED <<fsData, connectionType, error, pollingIntervalRef,
                                 fsIntervals, inboxModal, inboxLoading>>
        /\ Len(fsCalls') < Len(fsCalls) =>
             \* (json.inbox_files is not read once control is in the catch)
             \A i \in DOMAIN fsCalls, resp \in {x \in Responses : Threw(x)} :
                 CheckInboxSettle(i, resp, NULL) =>
                     UNCHANGED <<fsData, connectionType, error, pollingIntervalRef,
                                 fsIntervals, terminalModal, terminalLoading,
                                 terminalPollRef, fsTermIntervals>> ]_vars

\* The feed has fallen back to polling with a snapshot on show, the terminal
\* view shows a failed fetch's text and the inbox view is open
C26_Witness ==
    /\ fsData # NULL /\ error = NULL
    /\ connectionType = "polling" /\ LivePollTimers # {}
    /\ terminalModal # NULL /\ Get(terminalModal).content \in TermErrorTexts
    /\ inboxModal # NULL /\ inboxLoading = NULL

----------------------------------------------------------------------------
(* The credential of an action request *)

\* C27: each action request carries the credential value read at the moment
\* it is issued: the request just issued carries the stored value, changing
\* the stored value touches no request in flight, and a request keeps its
\* value until it settles.
C27_KeyReadAtIssue ==
    [][ /\ Len(fcCalls') > Len(fcCalls) =>
             LET c == fcCalls'[Len(fcCalls')] IN
             c.fn \in Dispatchers => c.key = cv_api_key
        /\ cv_api_key' # cv_api_key => fcCalls' = fcCalls
        /\ Len(fcCalls') >= Len(fcCalls) =>
             \A i \in DOMAIN fcCalls : fcCalls'[i].key = fcCalls[i].key ]_vars

\* The stored credential was changed while an action request is in flight:
\* the request still carries the value read when it was issued
C27_Witness ==
    \E i \in DOMAIN fcCalls :
        fcCalls[i].fn \in Dispatchers /\ fcCalls[i].key # cv_api_key

----------------------------------------------------------------------------
(* Health probes *)

\* C28: checkAppHealth always settles.  While the HEAD request is awaited its
\* abort timer is pending; a call that was aborted, or that was made for an
\* app without a health URL, has returned false, the latter without any
\* request; and every call that awaits its request eventually returns.
C28_ProbeAlwaysSettles ==
    /\ [](\A i \in 1..MaxProbes :
            /\ probes[i].pc = "fetch" => probes[i].timer /\ probes[i].requested
            /\ probes[i].pc = "done" =>
                 /\ probes[i].result \in {Some(TRUE), Some(FALSE)}
                 /\ probes[i].aborted => probes[i].result = Some(FALSE)
                 /\ probes[i].requested <=>
                        \E app \in StaticApps :
                            app.id = probes[i].app /\ app.healthUrl # NULL
                 /\ ~probes[i].requested => probes[i].result = Some(FALSE))
    /\ \A i \in 1..MaxProbes :
           (probes[i].pc = "fetch") ~> (probes[i].pc = "done")

\* One call was aborted by its timeout and returned false while another,
\* made for an app without a health URL, returned false with no request
C28_Witness ==
    /\ \E i \in 1..MaxProbes :
           probes[i].pc = "done" /\ probes[i].aborted /\ probes[i].requested
               /\ probes[i].result = Some(FALSE)
    /\ \E i \in 1..MaxProbes :
           probes[i].pc = "done" /\ ~probes[i].requested
               /\ probes[i].result = Some(FALSE)

----------------------------------------------------------------------------
(* The in-flight marker and the affordances *)

\* C29: among the verbs dispatched through doAction and doContextAction in
\* the control view, every affordance, for every agent and every fleet-wide
\* command, is disabled whenever actionLoading is non-null, so no second
\* action is started while the marker is set.
C29_AllDisabledWhileMarked ==
    /\ [](actionLoading # NULL =>
             /\ \A b \in DoActionButtons : ~DoActionEnabled(b)
             /\ \A b \in AgentContextButtons : ~AgentContextEnabled(b)
             /\ \A b \in FleetContextButtons : ~FleetContextEnabled(b))
    /\ [][ (actionLoading # NULL /\ Len(fcCalls') > Len(fcCalls)) =>
               fcCalls'[Len(fcCalls')].fn \notin Dispatchers ]_vars

\* The marker is set while lifecycle buttons, per-agent context buttons and
\* the fleet-wide commands are all on show
C29_Witness ==
    /\ actionLoading # NULL
    /\ \E b \in DoActionButtons : Len(b.endpoint) = 2
    /\ AgentContextButtons # {}
    /\ FleetContextButtons # {}

----------------------------------------------------------------------------
(* The modal descriptor of a success response *)

\* A success response that carries a modal descriptor
ModalResponses == {resp \in Responses : ~Threw(resp) /\ IsModal(resp)}

\* C30: for every verb, a success response that carries a modal descriptor
\* puts the descriptor on show and produces no Completed banner, for launch,
\* kill, restart, launch-all and kill-all issued through doAction as well.
C30_ModalForEveryVerb ==
    [][ fcCalls' # fcCalls =>
          \A i \in DOMAIN fcCalls, resp \in ModalResponses :
              (DoActionSettle(i, resp) \/ DoContextActionSettle(i, resp)) =>
                  /\ modal' = resp.modal
                  /\ ~(message' # NULL /\ message' # message
                          /\ Get(message').type = "success") ]_vars

----------------------------------------------------------------------------
(* The feed's connection mode *)

\* fetchStatus calls in flight that belong to the mounted component
LiveFetches == {i \in DOMAIN fsFetches : fsFetches[i].live}

\* C31: once the connection mode has become polling it remains polling
\* until the view is torn down: no stream open, stream message or poll
\* result returns it to streaming.
C31_PollingPersists ==
    [][ (connectionType = "polling" /\ connectionType' # "polling")
            => (fsMounted /\ ~fsMounted') ]_vars

\* The fallback is engaged and a poll result, not the stream, has supplied
\* the snapshot on show
C31_Witness ==
    /\ fsMounted /\ connectionType = "polling"
    /\ delivered = 0 /\ fsData # NULL /\ error = NULL

\* C34: no GET /api/fleet/status is issued before a channel error has
\* occurred, and while the connection mode is streaming snapshots are
\* applied only from stream messages.
C34_NoGetBeforeChannelError ==
    /\ []((fsMounted /\ errored = 0) =>
              /\ connectionType = "sse"
              /\ LiveFetches = {} /\ LivePollTimers = {})
    /\ [][ (fsMounted /\ fsMounted' /\ connectionType = "sse" /\ fsData' # fsData)
               => (delivered' = delivered + 1 /\ Len(fsFetches') = Len(fsFetches)) ]_vars

\* A stream that never errored has replaced one snapshot by another
C34_Witness ==
    /\ fsMounted /\ errored = 0 /\ connectionType = "sse"
    /\ delivered = 2 /\ fsData = Some(SnapB) /\ fsFetches = <<>>

\* C35: while the status view is mounted, the connection mode is polling
\* exactly when the fallback poll timer is active, and at most one fallback
\* poll timer exists at any time.
C35_PollingIffTimer ==
    /\ fsMounted => ((connectionType = "polling") <=> (LivePollTimers # {}))
    /\ Cardinality(fsIntervals) <= 1

\* The one fallback timer has fired twice over: two polls are in flight
C35_Witness ==
    /\ fsMounted /\ connectionType = "polling"
    /\ Cardinality(LivePollTimers) = 1
    /\ Cardinality(LiveFetches) = 2

\* C39: after a failed poll has set the error state, the next successful
\* poll or stream message clears the error and makes the newly received
\* snapshot the displayed one.
C39_SuccessClearsError ==
    [][ (fsMounted /\ fsMounted' /\ error # NULL) =>
          /\ \A i \in LiveFetches, r \in {x \in StatusResponses : StatusOk(x)} :
                 FsFetchStatusSettle(i, r) =>
                     (error' = NULL /\ fsData' = r.snap /\ FsRendered')
          /\ \A k \in DOMAIN sources, m \in {x \in StreamMessages : Applied(x)} :
                 SseMessage(k, m) =>
                     (error' = NULL /\ fsData' = m.snap /\ FsRendered') ]_vars

\* A failed poll hides the held snapshot while the next poll is in flight
C39_Witness ==
    /\ fsMounted /\ error # NULL /\ fsData # NULL
    /\ LiveFetches # {}

----------------------------------------------------------------------------
(* Races of the terminal poller and of the banner timers *)

\* C36: at most one terminal poll timer exists at any time, also when
\* openTerminal is invoked again before an earlier call's initial fetch has
\* completed or while a terminal timer is already running.
C36_OneTerminalTimer ==
    Cardinality(fsTermIntervals) <= 1

\* The banner a pending auto-clear timer was scheduled with: the 2000 ms
\* timer with sendMessageToMain's success text, the 3000 ms timer with
\* fleetInboxCheck's success text (json.status)
OwnBanner(t, m) ==
    /\ m # NULL
    /\ Get(m).type = "success"
    /\ IF t.ms = 2000 THEN Get(m).text = <<"Message sent to Main">>
       ELSE Get(m).text # <<"Message sent to Main">>

\* C38: an auto-clear timer scheduled for one banner never clears a
\* different, later banner: when a timer fires while a banner that is not
\* the one it was scheduled with is on show, that banner stays.
C38_TimerClearsOwnBannerOnly ==
    [][ Len(fsTimeouts') < Len(fsTimeouts) =>
          \A i \in DOMAIN fsTimeouts :
              ( /\ fsTimeouts[i].live
                /\ fleetMessage # NULL /\ ~OwnBanner(fsTimeouts[i], fleetMessage)
                /\ FsTimeoutFire(i) )
              => fleetMessage' = fleetMessage ]_vars

\* C37: after closeTerminal the terminal view stays closed until the next
\* openTerminal: a terminal fetch that was in flight when the view was
\* closed does not reopen the view when it completes.
C37_ClosedStaysClosed ==
    [][ Len(fsTermFetches') < Len(fsTermFetches) =>
          \A i \in DOMAIN fsTermFetches :
              ( /\ fsTermFetches[i].closed /\ fsTermFetches[i].live
                /\ MarkClosed(fsTermFetches', FALSE) =
                       MarkClosed(RemoveAt(fsTermFetches, i), FALSE)
                /\ terminalModal = NULL )
              => terminalModal' = NULL ]_vars

\* C32: if every network request eventually settles, every started action
\* eventually clears the in-flight marker, also when the forced snapshot
\* refresh that doAction awaits fails.
C32_MarkerEventuallyCleared ==
    /\ (actionLoading # NULL) ~> (actionLoading = NULL)
    /\ [][\A i \in ForcedInFlight, j \in Refreshing, r \in StatusResponses :
             (~StatusOk(r) /\ DoActionRefreshSettle(i, j, r))
             => actionLoading' = NULL]_vars

C32_Witness ==
    /\ actionLoading # NULL
    /\ Refreshing # {}
    /\ ForcedInFlight # {}
    /\ Len(fcFetches) = Cardinality(ForcedInFlight)
    /\ PostsInFlight(Dispatchers) = {}

\* C33: in doAction the in-flight marker stays set from the action request
\* until the forced refresh has settled, so no other doAction or
\* doContextAction starts between an action's success response and the
\* completion of its refresh.
C33_MarkerHeldThroughRefresh ==
    /\ [](\A j \in DOMAIN fcCalls :
             fcCalls[j].fn = "doAction" => actionLoading = Some(fcCalls[j].endpoint))
    /\ [][Refreshing # {} =>
             ~( /\ Len(fcCalls') > Len(fcCalls)
                /\ fcCalls'[Len(fcCalls')].fn \in Dispatchers )]_vars

C33_Witness ==
    /\ Refreshing # {}
    /\ \A j \in Refreshing : actionLoading = Some(fcCalls[j].endpoint)
    /\ FcRendered
    /\ DoActionButtons # {} /\ AgentContextButtons # {} /\ FleetContextButtons # {}
    /\ modal = NULL

\* C40: in the control view sendMessageToMain issues a network request only
\* when the composed text is non-blank and the stored credential is
\* non-empty; otherwise no request is sent and the composed text is left
\* unchanged.
C40_SendOnlyWithTextAndKey ==
    [][/\ ( /\ Len(fcCalls') > Len(fcCalls)
            /\ fcCalls'[Len(fcCalls')].fn = "sendMessageToMain" )
          => (fcMainMessage \notin {"", " "} /\ cv_api_key # "")
       /\ ( /\ (fcMainMessage \in {"", " "} \/ cv_api_key = "")
            /\ FcSendMessageToMain )
          => (fcCalls' = fcCalls /\ fcMainMessage' = fcMainMessage)]_vars

C40_Witness ==
    /\ cv_api_key = ""
    /\ fcMainMessage = "hi"
    /\ message = ErrorMsg("API key required. Enter it below.")
    /\ PostsInFlight({"sendMessageToMain"}) = {}
    /\ ~fcSendingMessage


====
